---------------------------- MODULE Spec2Model ----------------------------
(***************************************************************************)
(* Order-and-promotions engine of the e-commerce platform: the in-memory   *)
(* database (utils/database), the order routes (create, status update,     *)
(* pay) and the marketing routes (group buying, flash sale).               *)
(*                                                                         *)
(* Every route handler is synchronous JavaScript (no await between its     *)
(* first read and its last write), so Node runs it to completion: one      *)
(* handler is one atomic action, and concurrent requests are served in an  *)
(* arbitrary order.                                                        *)
(*                                                                         *)
(* Units: order amounts are held in hundredths of the currency unit (so    *)
(* that value/100 of a percentage coupon is exact), wallets in             *)
(* ten-thousandths (so that 5%, 3%, 1% of an amount are exact).            *)
(* An optional JavaScript value is a sequence: <<>> when undefined,        *)
(* <<v>> when present.                                                     *)
(***************************************************************************)
EXTENDS Integers, Sequences, FiniteSets, TLC

VARIABLES
    products,      \* database.products: id -> product (price, inventory, supplierId)
    orders,        \* database.orders, in insertion order; an order's id is its index
    coupons,       \* database.coupons, in insertion order
    users,         \* database.users: id -> [role, points, wallet, referrerId]
    flashSales,    \* database.flashSales, in insertion order
    activities,    \* database.groupBuyingActivities, in insertion order
    groups,        \* database.groupBuyingGroups, in insertion order
    now,           \* wall clock read by the handlers (hours)
    resp,          \* the response of the last request served
    granted,       \* history: per product, the quantity reserved by create-order so far
    served,        \* history: number of create-order requests served
    completions,   \* history: per group, how often its status was set to completed
    batch,         \* a batch of concurrent flash-sale purchase requests in flight
    calc           \* the coupon under computation: input and result

coreVars  == <<products, orders, coupons, users>>
promoVars == <<flashSales, activities, groups, now>>
histVars  == <<granted, served, completions>>
vars == <<products, orders, coupons, users, flashSales, activities, groups, now,
          resp, granted, served, completions, batch, calc>>

(***************************************************************************)
(* Bounds of the model                                                     *)
(***************************************************************************)
MaxCreate   == 2      \* create-order requests served
MaxOrders   == 1      \* orders stored, where status updates and payments follow
MaxItems    == 2      \* line items of one request
MaxTimeline == 3      \* timeline entries of one order
QtySmall    == 3      \* a quantity every product can supply
QtyBig      == 60     \* a quantity no product can supply twice

Min(a, b) == IF a < b THEN a ELSE b

RECURSIVE SumSeq(_)
SumSeq(s) == IF s = <<>> THEN 0 ELSE Head(s) + SumSeq(Tail(s))

(***************************************************************************)
(* utils/database: the demo data of initDatabase                           *)
(***************************************************************************)
Prod1Total     == 100
Prod1Available == 95
Prod1Reserved  == 5
Prod2Total     == 80
Prod2Available == 78
Prod2Reserved  == 2

Products == {"prod1", "prod2"}

SeedProducts ==
    [p \in Products |->
        IF p = "prod1"
        THEN [price |-> [original |-> 9999, selling |-> 8999,
                         distributor |-> 8500, retailer |-> 8800],
              inventory |-> [total |-> Prod1Total, available |-> Prod1Available,
                             reserved |-> Prod1Reserved, threshold |-> 10],
              supplierId |-> "supplier1"]
        ELSE [price |-> [original |-> 5999, selling |-> 5499,
                         distributor |-> 5200, retailer |-> 5400],
              inventory |-> [total |-> Prod2Total, available |-> Prod2Available,
                             reserved |-> Prod2Reserved, threshold |-> 15],
              supplierId |-> "supplier1"]]

\* coupon1, NEWUSER10: 10 percent, at most 50, on orders of at least 100,
\* valid for 30 days from the start (instants in hours)
CouponValidHours == 30 * 24

SeedCoupons ==
    << [code |-> "NEWUSER10", type |-> "percentage", value |-> 10,
        minAmount |-> 100, maxDiscount |-> <<50>>, maxUsage |-> 1000,
        usageCount |-> 0, status |-> "active",
        validFrom |-> 0, validTo |-> CouponValidHours] >>

\* admin1 and supplier1 of initDatabase, and two customers as /register and
\* the admin's POST /users (profile.referrerId) leave them: c1 was referred
\* by c2, c2 by supplier1, supplier1 by admin1.
Users == {"admin1", "supplier1", "c1", "c2"}
Customers == {"c1", "c2"}

SeedUsers ==
    [u \in Users |->
        CASE u = "admin1"    -> [role |-> "admin", points |-> 0, wallet |-> 0,
                                 referrerId |-> <<>>]
          [] u = "supplier1" -> [role |-> "supplier", points |-> 0,
                                 wallet |-> 5000 * 10000,
                                 referrerId |-> <<"admin1">>]
          [] u = "c1"        -> [role |-> "customer", points |-> 100, wallet |-> 0,
                                 referrerId |-> <<"c2">>]
          [] OTHER           -> [role |-> "customer", points |-> 100, wallet |-> 0,
                                 referrerId |-> <<"supplier1">>]]

(***************************************************************************)
(* routes/orders: POST / (create order)                                    *)
(***************************************************************************)
\* the unit price the buyer's role gets
ItemPrice(role, product) ==
    IF role = "distributor" THEN product.price.distributor
    ELSE IF role = "retailer" THEN product.price.retailer
    ELSE product.price.selling

\* a reservation that forgets to take the quantity out of available
ReserveKeepAvailable(prods, pid, qty) ==
    [prods EXCEPT ![pid].inventory.reserved = @ + qty]

\* product.inventory.available -= quantity; product.inventory.reserved += quantity
Reserve(prods, pid, qty) ==
    [prods EXCEPT ![pid].inventory.available = @ - qty,
                  ![pid].inventory.reserved = @ + qty]

\* The loop over the request's items, from item i on: it stops at the first
\* unknown product or insufficient stock and returns at once, leaving what
\* the earlier iterations wrote.
RECURSIVE ReserveLoop(_, _, _, _, _, _)
ReserveLoop(cart, i, role, prods, totalAmount, orderItems) ==
    IF i > Len(cart)
    THEN [kind |-> "ok", products |-> prods, totalAmount |-> totalAmount,
          orderItems |-> orderItems]
    ELSE LET item == cart[i] IN
         IF item.productId \notin DOMAIN prods
         THEN [kind |-> "NotFound", products |-> prods,
               totalAmount |-> totalAmount, orderItems |-> orderItems]
         ELSE IF prods[item.productId].inventory.available < item.quantity
         THEN [kind |-> "InsufficientStock", products |-> prods,
               totalAmount |-> totalAmount, orderItems |-> orderItems]
         ELSE LET itemPrice == ItemPrice(role, prods[item.productId])
                  itemTotal == itemPrice * item.quantity
              IN  ReserveLoop(cart, i + 1, role,
                              Reserve(prods, item.productId, item.quantity),
                              totalAmount + itemTotal,
                              Append(orderItems,
                                     [productId |-> item.productId,
                                      price |-> itemPrice,
                                      quantity |-> item.quantity,
                                      total |-> itemTotal]))

\* coupon.maxDiscount || Infinity: an undefined and a zero maxDiscount are
\* both falsy, and then nothing caps the discount
HasCap(coupon) == coupon.maxDiscount # <<>> /\ coupon.maxDiscount[1] # 0

\* the discount of a coupon on an order of totalAmount units, in hundredths
CouponDiscount(coupon, totalAmount) ==
    IF coupon.type = "percentage"
    THEN IF HasCap(coupon)
         THEN Min(totalAmount * coupon.value, coupon.maxDiscount[1] * 100)
         ELSE totalAmount * coupon.value
    ELSE IF coupon.type = "fixed"
    THEN Min(coupon.value, totalAmount) * 100
    ELSE 0

\* if (coupon && totalAmount >= coupon.minAmount) { discountAmount = ... }
ApplyCoupon(coupon, totalAmount) ==
    IF totalAmount >= coupon.minAmount
    THEN CouponDiscount(coupon, totalAmount)
    ELSE 0

\* Array.from(database.coupons.values()).find(c => c.code === couponCode &&
\* c.status === 'active'): the index of the first match, 0 when none
FindCoupon(cs, couponCode) ==
    LET hits == {i \in 1..Len(cs) : cs[i].code = couponCode /\ cs[i].status = "active"}
    IN  IF hits = {} THEN 0 ELSE CHOOSE i \in hits : \A j \in hits : i <= j

\* quantity of product p in a list of order items
QtyOf(items, p) ==
    SumSeq([k \in 1..Len(items) |->
               IF items[k].productId = p THEN items[k].quantity ELSE 0])

CreateOrder(u, cart, couponCode, orderType) ==
    /\ served < MaxCreate
    /\ served' = served + 1
    /\ UNCHANGED <<users, promoVars, completions, batch, calc>>
    /\ IF cart = <<>>
       THEN /\ resp' = [op |-> "CreateOrder", kind |-> "EmptyItems"]
            /\ UNCHANGED <<products, orders, coupons, granted>>
       ELSE LET r == ReserveLoop(cart, 1, users[u].role, products, 0, <<>>) IN
            /\ products' = r.products
            /\ granted' = [p \in Products |-> granted[p] + QtyOf(r.orderItems, p)]
            /\ IF r.kind # "ok"
               THEN /\ resp' = [op |-> "CreateOrder", kind |-> r.kind]
                    /\ UNCHANGED <<orders, coupons>>
               ELSE LET ci == IF couponCode = <<>> THEN 0
                              ELSE FindCoupon(coupons, couponCode[1])
                        applies == ci # 0 /\ r.totalAmount >= coupons[ci].minAmount
                        discountAmount ==
                            IF ci # 0 THEN ApplyCoupon(coupons[ci], r.totalAmount)
                            ELSE 0
                        newOrder ==
                            [userId |-> u,
                             items |-> r.orderItems,
                             amount |-> [subtotal |-> r.totalAmount * 100,
                                         discount |-> discountAmount,
                                         total |-> r.totalAmount * 100 - discountAmount],
                             coupon |-> IF applies THEN <<ci>> ELSE <<>>,
                             orderType |-> orderType,
                             flashSaleId |-> 0,
                             groupBuyingId |-> 0,
                             groupId |-> 0,
                             status |-> "pending",
                             paymentStatus |-> "unpaid",
                             timeline |-> << <<"created">> >>]
                    IN  /\ coupons' = IF applies
                                      THEN [coupons EXCEPT ![ci].usageCount = @ + 1]
                                      ELSE coupons
                        /\ orders' = Append(orders, newOrder)
                        /\ resp' = [op |-> "CreateOrder", kind |-> "ok"]

(***************************************************************************)
(* routes/orders: PATCH /:orderId/status                                   *)
(***************************************************************************)
Statuses == {"pending", "paid", "shipped", "delivered", "cancelled", "refunded"}

\* a permission check that lets a customer put its own order to any status
CanUpdateOwn(actor, order, status) ==
    \/ users[actor].role = "admin"
    \/ /\ users[actor].role = "supplier"
       /\ \E k \in 1..Len(order.items) :
             /\ order.items[k].productId \in DOMAIN products
             /\ products[order.items[k].productId].supplierId = actor
    \/ /\ users[actor].role = "customer"
       /\ order.userId = actor

\* req.user may update the order: an admin, the supplier of one of its
\* products, or its own customer when the target is cancelled
CanUpdate(actor, order, status) ==
    \/ users[actor].role = "admin"
    \/ /\ users[actor].role = "supplier"
       /\ \E k \in 1..Len(order.items) :
             /\ order.items[k].productId \in DOMAIN products
             /\ products[order.items[k].productId].supplierId = actor
    \/ /\ users[actor].role = "customer"
       /\ order.userId = actor
       /\ status = "cancelled"

\* a release that forgets to take the quantity out of reserved
ReleaseKeepReserved(prods, pid, qty) ==
    [prods EXCEPT ![pid].inventory.available = @ + qty]

\* product.inventory.available += quantity; product.inventory.reserved -= quantity
Release(prods, pid, qty) ==
    [prods EXCEPT ![pid].inventory.available = @ + qty,
                  ![pid].inventory.reserved = @ - qty]

\* product.inventory.reserved -= quantity; product.inventory.total -= quantity
Confirm(prods, pid, qty) ==
    [prods EXCEPT ![pid].inventory.reserved = @ - qty,
                  ![pid].inventory.total = @ - qty]

\* order.items.forEach(release), skipping items whose product is gone
RECURSIVE ReleaseItems(_, _)
ReleaseItems(prods, items) ==
    IF items = <<>> THEN prods
    ELSE LET item == Head(items) IN
         ReleaseItems(IF item.productId \in DOMAIN prods
                      THEN Release(prods, item.productId, item.quantity)
                      ELSE prods,
                      Tail(items))

\* order.items.forEach(confirm), skipping items whose product is gone
RECURSIVE ConfirmItems(_, _)
ConfirmItems(prods, items) ==
    IF items = <<>> THEN prods
    ELSE LET item == Head(items) IN
         ConfirmItems(IF item.productId \in DOMAIN prods
                      THEN Confirm(prods, item.productId, item.quantity)
                      ELSE prods,
                      Tail(items))

\* the inventory after a status update from oldStatus to status
InventoryAfter(prods, order, oldStatus, status) ==
    IF status = "cancelled" \/ status = "refunded"
    THEN ReleaseItems(prods, order.items)
    ELSE IF status = "paid" /\ oldStatus = "pending"
    THEN ConfirmItems(prods, order.items)
    ELSE prods

\* a status update that takes the buyer's points back on a cancel or refund
UpdateStatusClawback(actor, oid, status) ==
    /\ UNCHANGED <<coupons, promoVars, histVars, batch, calc>>
    /\ IF oid \notin 1..Len(orders)
       THEN /\ resp' = [op |-> "UpdateStatus", kind |-> "NotFound"]
            /\ UNCHANGED <<products, orders, users>>
       ELSE LET order == orders[oid] IN
            IF ~CanUpdate(actor, order, status)
            THEN /\ resp' = [op |-> "UpdateStatus", kind |-> "Unauthorized"]
                 /\ UNCHANGED <<products, orders, users>>
            ELSE IF order.timeline = <<>>
            THEN /\ orders' = [orders EXCEPT ![oid].status = status]
                 /\ resp' = [op |-> "UpdateStatus", kind |-> "InternalError"]
                 /\ UNCHANGED <<products, users>>
            ELSE /\ orders' = [orders EXCEPT
                                  ![oid].status = status,
                                  ![oid].timeline = <<Append(order.timeline[1], status)>>]
                 /\ products' = InventoryAfter(products, order, order.status, status)
                 /\ users' = IF status = "cancelled" \/ status = "refunded"
                             THEN [users EXCEPT ![order.userId].points = 0]
                             ELSE users
                 /\ resp' = [op |-> "UpdateStatus", kind |-> "ok"]

UpdateStatus(actor, oid, status) ==
    /\ UNCHANGED <<coupons, users, promoVars, histVars, batch, calc>>
    /\ IF oid \notin 1..Len(orders)
       THEN /\ resp' = [op |-> "UpdateStatus", kind |-> "NotFound"]
            /\ UNCHANGED <<products, orders>>
       ELSE LET order == orders[oid] IN
            IF ~CanUpdate(actor, order, status)
            THEN /\ resp' = [op |-> "UpdateStatus", kind |-> "Unauthorized"]
                 /\ UNCHANGED <<products, orders>>
            ELSE IF order.timeline = <<>>
            THEN \* order.status is written, then order.timeline.push throws on
                 \* the undefined timeline; the catch answers 500
                 /\ orders' = [orders EXCEPT ![oid].status = status]
                 /\ resp' = [op |-> "UpdateStatus", kind |-> "InternalError"]
                 /\ UNCHANGED products
            ELSE /\ orders' = [orders EXCEPT
                                  ![oid].status = status,
                                  ![oid].timeline = <<Append(order.timeline[1], status)>>]
                 /\ products' = InventoryAfter(products, order, order.status, status)
                 /\ resp' = [op |-> "UpdateStatus", kind |-> "ok"]

(***************************************************************************)
(* routes/orders: POST /:orderId/pay                                       *)
(***************************************************************************)
Level1Rate == 5
Level2Rate == 3
Level3Rate == 1

\* a credit that pays the first level's rate at every level
CreditFlatRate(us, id, total, rate) ==
    [us EXCEPT ![id].wallet = @ + total * Level1Rate]

\* users[id].profile.wallet += total * rate / 100, in ten-thousandths
Credit(us, id, total, rate) == [us EXCEPT ![id].wallet = @ + total * rate]

\* a walk that goes on to a fourth referrer
CommissionDeep(us, buyer, total) ==
    LET r1 == us[buyer].referrerId IN
    IF r1 = <<>> \/ r1[1] \notin DOMAIN us THEN us
    ELSE LET us1 == Credit(us, r1[1], total, Level1Rate)
             r2 == us1[r1[1]].referrerId
         IN  IF r2 = <<>> \/ r2[1] \notin DOMAIN us1 THEN us1
             ELSE LET us2 == Credit(us1, r2[1], total, Level2Rate)
                      r3 == us2[r2[1]].referrerId
                  IN  IF r3 = <<>> \/ r3[1] \notin DOMAIN us2 THEN us2
                      ELSE LET us3 == Credit(us2, r3[1], total, Level3Rate)
                               r4 == us3[r3[1]].referrerId
                           IN  IF r4 = <<>> \/ r4[1] \notin DOMAIN us3 THEN us3
                               ELSE Credit(us3, r4[1], total, Level3Rate)

\* the three-level commission on an order of the given total (hundredths)
\* paid by buyer: each level needs a referrerId that names a stored user
Commission(us, buyer, total) ==
    LET r1 == us[buyer].referrerId IN
    IF r1 = <<>> \/ r1[1] \notin DOMAIN us THEN us
    ELSE LET us1 == Credit(us, r1[1], total, Level1Rate)
             r2 == us1[r1[1]].referrerId
         IN  IF r2 = <<>> \/ r2[1] \notin DOMAIN us1 THEN us1
             ELSE LET us2 == Credit(us1, r2[1], total, Level2Rate)
                      r3 == us2[r2[1]].referrerId
                  IN  IF r3 = <<>> \/ r3[1] \notin DOMAIN us2 THEN us2
                      ELSE Credit(us2, r3[1], total, Level3Rate)

\* Math.floor(order.amount.total * 0.01), the total being in hundredths
PointsEarned(total) == total \div 10000

\* a guard that reads the order's status instead of its paymentStatus
AlreadyPaidByStatus(order) == order.status = "paid"

\* if (order.paymentStatus === 'paid')
AlreadyPaid(order) == order.paymentStatus = "paid"

PayOrder(actor, oid) ==
    /\ UNCHANGED <<products, coupons, promoVars, histVars, batch, calc>>
    /\ IF oid \notin 1..Len(orders)
       THEN /\ resp' = [op |-> "PayOrder", kind |-> "NotFound"]
            /\ UNCHANGED <<orders, users>>
       ELSE LET order == orders[oid] IN
            IF order.userId # actor
            THEN /\ resp' = [op |-> "PayOrder", kind |-> "Unauthorized"]
                 /\ UNCHANGED <<orders, users>>
            ELSE IF AlreadyPaid(order)
            THEN /\ resp' = [op |-> "PayOrder", kind |-> "AlreadyPaid"]
                 /\ UNCHANGED <<orders, users>>
            ELSE IF order.timeline = <<>>
            THEN \* paymentStatus and status are written, then
                 \* order.timeline.push throws; the catch answers 500
                 /\ orders' = [orders EXCEPT ![oid].paymentStatus = "paid",
                                             ![oid].status = "paid"]
                 /\ resp' = [op |-> "PayOrder", kind |-> "InternalError"]
                 /\ UNCHANGED users
            ELSE /\ orders' = [orders EXCEPT
                                  ![oid].paymentStatus = "paid",
                                  ![oid].status = "paid",
                                  ![oid].timeline = <<Append(order.timeline[1], "paid")>>]
                 /\ users' = Commission(
                                [users EXCEPT ![actor].points =
                                                  @ + PointsEarned(order.amount.total)],
                                actor, order.amount.total)
                 /\ resp' = [op |-> "PayOrder", kind |-> "ok"]

(***************************************************************************)
(* routes/orders: POST /:orderId/verify (O2O verification)                 *)
(***************************************************************************)
\* codeMatches: verificationCode === order.id.slice(-6).toUpperCase()
VerifyOrder(actor, oid, codeMatches) ==
    /\ UNCHANGED <<products, coupons, users, promoVars, histVars, batch, calc>>
    /\ IF users[actor].role \notin {"admin", "retailer"}
       THEN /\ resp' = [op |-> "VerifyOrder", kind |-> "Forbidden"]
            /\ UNCHANGED orders
       ELSE IF oid \notin 1..Len(orders)
       THEN /\ resp' = [op |-> "VerifyOrder", kind |-> "NotFound"]
            /\ UNCHANGED orders
       ELSE LET order == orders[oid] IN
            IF order.orderType # "offline"
            THEN /\ resp' = [op |-> "VerifyOrder", kind |-> "NotOffline"]
                 /\ UNCHANGED orders
            ELSE IF order.status = "delivered"
            THEN /\ resp' = [op |-> "VerifyOrder", kind |-> "AlreadyVerified"]
                 /\ UNCHANGED orders
            ELSE IF ~codeMatches
            THEN /\ resp' = [op |-> "VerifyOrder", kind |-> "WrongCode"]
                 /\ UNCHANGED orders
            ELSE IF order.timeline = <<>>
            THEN /\ orders' = [orders EXCEPT ![oid].status = "delivered"]
                 /\ resp' = [op |-> "VerifyOrder", kind |-> "InternalError"]
            ELSE /\ orders' = [orders EXCEPT
                                  ![oid].status = "delivered",
                                  ![oid].timeline = <<Append(order.timeline[1], "delivered")>>]
                 /\ resp' = [op |-> "VerifyOrder", kind |-> "ok"]

(***************************************************************************)
(* The order core: requests served in any order                            *)
(***************************************************************************)
NoBatch == [active |-> FALSE]
NoCalc  == [active |-> FALSE]

Init ==
    /\ products = SeedProducts
    /\ orders = <<>>
    /\ coupons = SeedCoupons
    /\ users = SeedUsers
    /\ flashSales = <<>>
    /\ activities = <<>>
    /\ groups = <<>>
    /\ now = 0
    /\ resp = [op |-> "none", kind |-> "none"]
    /\ granted = [p \in Products |-> 0]
    /\ served = 0
    /\ completions = <<>>
    /\ batch = NoBatch
    /\ calc = NoCalc

\* the line items a request may name: a known product in a small and in a
\* large quantity, and a product the database does not hold
ItemChoices ==
    { [productId |-> "prod1", quantity |-> QtySmall],
      [productId |-> "prod2", quantity |-> QtyBig],
      [productId |-> "prod9", quantity |-> QtySmall] }

\* the requests' item lists: up to MaxItems line items
Carts == UNION {[1..n -> ItemChoices] : n \in 0..MaxItems}
CouponCodes == {<<>>, <<"NEWUSER10">>}
Buyers == {"c1"}
OrderIds == 1..(MaxOrders + 1)
TargetStatuses == Statuses \cup {"archived"}

OrderTypes == {"online", "offline"}

\* no stored order has more than n timeline entries
TimelinesWithin(os, n) ==
    \A i \in 1..Len(os) : os[i].timeline = <<>> \/ Len(os[i].timeline[1]) <= n

Next ==
    \/ \E u \in Buyers, cart \in Carts, code \in CouponCodes, orderType \in OrderTypes :
          CreateOrder(u, cart, code, orderType) /\ Len(orders') <= MaxOrders
    \/ \E actor \in Users, oid \in OrderIds, status \in TargetStatuses :
          UpdateStatus(actor, oid, status) /\ TimelinesWithin(orders', MaxTimeline)
    \/ \E actor \in Users, oid \in OrderIds :
          PayOrder(actor, oid) /\ TimelinesWithin(orders', MaxTimeline)
    \/ \E actor \in Users, oid \in OrderIds, codeMatches \in BOOLEAN :
          VerifyOrder(actor, oid, codeMatches) /\ TimelinesWithin(orders', MaxTimeline)

Spec == Init /\ [][Next]_vars

(***************************************************************************)
(* routes/marketing: flash sale                                            *)
(***************************************************************************)
MaxSales       == 1     \* flash sales created
MaxSaleStock   == 2     \* the inventory a flash sale is created with
MaxLimit       == 2     \* the limitPerUser a flash sale is created with
MaxFlashOrders == 3     \* orders stored by flash-sale purchases
TickHours      == 12    \* the step of the wall clock
MaxTime        == 36    \* the wall clock stops here

\* requireRole(['admin', 'supplier'])
IsStaff(u) == users[u].role \in {"admin", "supplier"}

CreateFlashSale(actor, productId, originalPrice, salePrice, inventory, startTime, endTime, limitPerUser) ==
    /\ Len(flashSales) < MaxSales
    /\ UNCHANGED <<coreVars, activities, groups, now, histVars, batch, calc>>
    /\ IF ~IsStaff(actor)
       THEN /\ resp' = [op |-> "CreateFlashSale", kind |-> "Unauthorized"]
            /\ UNCHANGED flashSales
       ELSE IF productId \notin DOMAIN products
       THEN /\ resp' = [op |-> "CreateFlashSale", kind |-> "NotFound"]
            /\ UNCHANGED flashSales
       ELSE /\ flashSales' = Append(flashSales,
                   [productId |-> productId,
                    originalPrice |-> originalPrice,
                    salePrice |-> salePrice,
                    inventory |-> inventory,
                    soldCount |-> 0,
                    startTime |-> startTime,
                    endTime |-> endTime,
                    limitPerUser |-> limitPerUser,
                    participants |-> << >>,
                    status |-> "scheduled"])
            /\ resp' = [op |-> "CreateFlashSale", kind |-> "ok"]

\* flashSale.participants.get(userId) || 0
UserPurchased(sale, u) ==
    IF u \in DOMAIN sale.participants THEN sale.participants[u] ELSE 0

\* a map update that keeps the entry of a user who is already in the map
SetPurchasedOnce(participants, u, qty) ==
    [x \in DOMAIN participants \cup {u} |->
        IF x \in DOMAIN participants THEN participants[x] ELSE qty]

\* flashSale.participants.set(userId, qty)
SetPurchased(participants, u, qty) ==
    [x \in DOMAIN participants \cup {u} |-> IF x = u THEN qty ELSE participants[x]]

\* the checks with the stock test off by one (>= for >)
PurchaseCheckOffByOne(sale, u, quantity, t) ==
    IF t < sale.startTime THEN "PromotionNotStarted"
    ELSE IF t > sale.endTime THEN "PromotionEnded"
    ELSE IF sale.soldCount + quantity >= sale.inventory THEN "InsufficientStock"
    ELSE IF UserPurchased(sale, u) + quantity > sale.limitPerUser THEN "QuotaExceeded"
    ELSE "ok"

\* the checks without the stock test
PurchaseCheckNoStock(sale, u, quantity, t) ==
    IF t < sale.startTime THEN "PromotionNotStarted"
    ELSE IF t > sale.endTime THEN "PromotionEnded"
    ELSE IF UserPurchased(sale, u) + quantity > sale.limitPerUser THEN "QuotaExceeded"
    ELSE "ok"

\* the checks without the per-user limit
PurchaseCheckNoQuota(sale, u, quantity, t) ==
    IF t < sale.startTime THEN "PromotionNotStarted"
    ELSE IF t > sale.endTime THEN "PromotionEnded"
    ELSE IF sale.soldCount + quantity > sale.inventory THEN "InsufficientStock"
    ELSE "ok"

\* the checks with the window's bounds excluded
PurchaseCheckOpenWindow(sale, u, quantity, t) ==
    IF t <= sale.startTime THEN "PromotionNotStarted"
    ELSE IF t >= sale.endTime THEN "PromotionEnded"
    ELSE IF sale.soldCount + quantity > sale.inventory THEN "InsufficientStock"
    ELSE IF UserPurchased(sale, u) + quantity > sale.limitPerUser THEN "QuotaExceeded"
    ELSE "ok"

\* the answer of the purchase handler's checks, in the handler's order
PurchaseCheck(sale, u, quantity, t) ==
    IF t < sale.startTime THEN "PromotionNotStarted"
    ELSE IF t > sale.endTime THEN "PromotionEnded"
    ELSE IF sale.soldCount + quantity > sale.inventory THEN "InsufficientStock"
    ELSE IF UserPurchased(sale, u) + quantity > sale.limitPerUser THEN "QuotaExceeded"
    ELSE "ok"

FlashOrder(sale, sid, u, quantity) ==
    [userId |-> u,
     items |-> << [productId |-> sale.productId,
                   price |-> sale.salePrice,
                   quantity |-> quantity,
                   total |-> sale.salePrice * quantity] >>,
     amount |-> [subtotal |-> sale.salePrice * quantity * 100,
                 discount |-> (sale.originalPrice - sale.salePrice) * quantity * 100,
                 total |-> sale.salePrice * quantity * 100],
     coupon |-> <<>>,
     orderType |-> "flash_sale",
     flashSaleId |-> sid,
     groupBuyingId |-> 0,
     groupId |-> 0,
     status |-> "pending",
     paymentStatus |-> "unpaid",
     timeline |-> <<>>]

\* a purchase that also reserves the quantity in the product's inventory
PurchaseFlashSaleReserving(u, sid, quantity) ==
    /\ UNCHANGED <<coupons, users, activities, groups, now, histVars, calc>>
    /\ IF sid \notin 1..Len(flashSales)
       THEN /\ resp' = [op |-> "PurchaseFlashSale", kind |-> "NotFound"]
            /\ UNCHANGED <<flashSales, orders, products>>
       ELSE LET sale == flashSales[sid]
                kind == PurchaseCheck(sale, u, quantity, now)
            IN  /\ resp' = [op |-> "PurchaseFlashSale", kind |-> kind]
                /\ IF kind # "ok"
                   THEN UNCHANGED <<flashSales, orders, products>>
                   ELSE /\ Len(orders) < MaxFlashOrders
                        /\ orders' = Append(orders, FlashOrder(sale, sid, u, quantity))
                        /\ products' = Reserve(products, sale.productId, quantity)
                        /\ flashSales' =
                              [flashSales EXCEPT
                                  ![sid].soldCount = @ + quantity,
                                  ![sid].participants =
                                      SetPurchased(@, u, UserPurchased(sale, u) + quantity)]

PurchaseFlashSale(u, sid, quantity) ==
    /\ UNCHANGED <<products, coupons, users, activities, groups, now, histVars, calc>>
    /\ IF sid \notin 1..Len(flashSales)
       THEN /\ resp' = [op |-> "PurchaseFlashSale", kind |-> "NotFound"]
            /\ UNCHANGED <<flashSales, orders>>
       ELSE LET sale == flashSales[sid]
                kind == PurchaseCheck(sale, u, quantity, now)
            IN  /\ resp' = [op |-> "PurchaseFlashSale", kind |-> kind]
                /\ IF kind # "ok"
                   THEN UNCHANGED <<flashSales, orders>>
                   ELSE /\ Len(orders) < MaxFlashOrders
                        /\ orders' = Append(orders, FlashOrder(sale, sid, u, quantity))
                        /\ flashSales' =
                              [flashSales EXCEPT
                                  ![sid].soldCount = @ + quantity,
                                  ![sid].participants =
                                      SetPurchased(@, u, UserPurchased(sale, u) + quantity)]

\* the wall clock advances between requests
Tick ==
    /\ now < MaxTime
    /\ now' = now + TickHours
    /\ UNCHANGED <<coreVars, flashSales, activities, groups, resp, histVars, batch, calc>>

(***************************************************************************)
(* A batch of concurrent purchases: a set of users who have not purchased  *)
(* yet each send purchase(quantity = 1) to one sale that is inside its     *)
(* window; the requests are served one at a time in any order, and         *)
(* nothing else is served until the batch is done.                         *)
(***************************************************************************)
StartBatch(sid, U) ==
    /\ ~batch.active
    /\ U # {}
    /\ sid \in 1..Len(flashSales)
    /\ LET sale == flashSales[sid] IN
          /\ sale.startTime <= now /\ now <= sale.endTime
          /\ sale.limitPerUser >= 1
          /\ \A u \in U : UserPurchased(sale, u) = 0
          /\ batch' = [active |-> TRUE, sale |-> sid, users |-> U, pending |-> U,
                       remaining |-> sale.inventory - sale.soldCount,
                       soldBefore |-> sale.soldCount,
                       succeeded |-> 0, refusedStock |-> 0, refusedOther |-> 0]
    /\ UNCHANGED <<coreVars, promoVars, resp, histVars, calc>>

ServeBatch(u) ==
    /\ batch.active
    /\ u \in batch.pending
    /\ PurchaseFlashSale(u, batch.sale, 1)
    /\ batch' = [batch EXCEPT
                    !.pending = @ \ {u},
                    !.succeeded = IF resp'.kind = "ok" THEN @ + 1 ELSE @,
                    !.refusedStock = IF resp'.kind = "InsufficientStock" THEN @ + 1 ELSE @,
                    !.refusedOther = IF resp'.kind \notin {"ok", "InsufficientStock"}
                                     THEN @ + 1 ELSE @]

EndBatch ==
    /\ batch.active
    /\ batch.pending = {}
    /\ batch' = NoBatch
    /\ UNCHANGED <<coreVars, promoVars, resp, histVars, calc>>

\* every promotion of the model runs from the first to the second tick, so
\* the clock is before, at either end of, and after the window
WindowStart == TickHours
WindowEnd == 2 * TickHours
Shoppers == {"c1", "c2", "supplier1"}
Quantities == {-1, 1, 2}
SaleIds == 1..(MaxSales + 1)

NextFlash ==
    \/ \E actor \in {"admin1", "c1"}, productId \in {"prod1", "prod9"},
          inventory \in 0..MaxSaleStock, limitPerUser \in 1..MaxLimit :
          CreateFlashSale(actor, productId, 9999, 7999, inventory,
                          WindowStart, WindowEnd, limitPerUser)
    \/ \E u \in Shoppers, sid \in SaleIds, quantity \in Quantities :
          ~batch.active /\ PurchaseFlashSale(u, sid, quantity) /\ UNCHANGED batch
    \/ ~batch.active /\ Tick
    \/ \E sid \in SaleIds, U \in SUBSET Shoppers : StartBatch(sid, U)
    \/ \E u \in Shoppers : ServeBatch(u)
    \/ EndBatch

SpecFlash == Init /\ [][NextFlash]_vars

(***************************************************************************)
(* routes/marketing: group buying                                          *)
(***************************************************************************)
MaxActivities  == 1     \* group-buying activities created
MaxGroupSize   == 3     \* the groupSize an activity is created with
MaxGroupCount  == 2     \* groups opened
MaxGroupOrders == 6     \* orders stored by group completions
GroupExpiryHours == 24

CreateGroupBuying(actor, productId, groupSize, originalPrice, groupPrice, startTime, endTime, maxGroups) ==
    /\ UNCHANGED <<coreVars, flashSales, groups, now, histVars, batch, calc>>
    /\ IF ~IsStaff(actor)
       THEN /\ resp' = [op |-> "CreateGroupBuying", kind |-> "Unauthorized"]
            /\ UNCHANGED activities
       ELSE IF productId \notin DOMAIN products
       THEN /\ resp' = [op |-> "CreateGroupBuying", kind |-> "NotFound"]
            /\ UNCHANGED activities
       ELSE /\ activities' = Append(activities,
                   [productId |-> productId,
                    groupSize |-> groupSize,
                    originalPrice |-> originalPrice,
                    groupPrice |-> groupPrice,
                    startTime |-> startTime,
                    endTime |-> endTime,
                    maxGroups |-> maxGroups,
                    currentGroups |-> 0,
                    totalParticipants |-> 0,
                    status |-> "active"])
            /\ resp' = [op |-> "CreateGroupBuying", kind |-> "ok"]

\* the order of participant p of group gid, made from the activity the
\* completing request named
GroupOrder(activity, aid, gid, p) ==
    [userId |-> p.userId,
     items |-> << [productId |-> activity.productId,
                   price |-> activity.groupPrice,
                   quantity |-> p.quantity,
                   total |-> activity.groupPrice * p.quantity] >>,
     amount |-> [subtotal |-> activity.groupPrice * p.quantity * 100,
                 discount |-> (activity.originalPrice - activity.groupPrice)
                                 * p.quantity * 100,
                 total |-> activity.groupPrice * p.quantity * 100],
     coupon |-> <<>>,
     orderType |-> "group_buying",
     flashSaleId |-> 0,
     groupBuyingId |-> aid,
     groupId |-> gid,
     status |-> "pending",
     paymentStatus |-> "unpaid",
     timeline |-> <<>>]

\* group.participants.forEach(p => database.orders.set(order.id, order))
FanOut(os, activity, aid, gid, participants) ==
    os \o [k \in 1..Len(participants) |-> GroupOrder(activity, aid, gid, participants[k])]

\* a duplicate check that looks at the group's leader only
IsParticipantLeaderOnly(group, u) == group.leaderId = u

\* group.participants.find(p => p.userId === req.user.id)
IsParticipant(group, u) ==
    \E k \in 1..Len(group.participants) : group.participants[k].userId = u

\* a lookup that accepts a stored group whatever its status
GroupOpenAnyStatus(gs, gid) == gid \in 1..Len(gs)

\* the group a request names is stored and still recruiting
GroupOpen(gs, gid) == gid \in 1..Len(gs) /\ gs[gid].status = "recruiting"

\* a completion test that is off by one (> for >=)
CompletesLate(currentSize, requiredSize) == currentSize > requiredSize

\* group.currentSize >= group.requiredSize
Completes(currentSize, requiredSize) == currentSize >= requiredSize

\* The tail of the join handler, once the group (stored at gid in gs, with
\* history cs) is chosen: the duplicate check, the new participant, the
\* completion with its orders, and the activity's participant counter.
JoinGroup(u, aid, gid, quantity, acts, gs, cs) ==
    LET group == gs[gid] IN
    IF IsParticipant(group, u)
    THEN /\ resp' = [op |-> "JoinGroupBuying", kind |-> "AlreadyJoined"]
         /\ activities' = acts
         /\ groups' = gs
         /\ completions' = cs
         /\ UNCHANGED orders
    ELSE LET participants == Append(group.participants,
                                    [userId |-> u, quantity |-> quantity])
             currentSize == group.currentSize + 1
             completes == Completes(currentSize, group.requiredSize)
         IN  /\ groups' = [gs EXCEPT
                              ![gid].participants = participants,
                              ![gid].currentSize = currentSize,
                              ![gid].status = IF completes THEN "completed" ELSE @]
             /\ completions' = IF completes THEN [cs EXCEPT ![gid] = @ + 1] ELSE cs
             /\ IF completes
                THEN /\ Len(orders) + Len(participants) <= MaxGroupOrders
                     /\ orders' = FanOut(orders, acts[aid], aid, gid, participants)
                ELSE UNCHANGED orders
             /\ activities' = [acts EXCEPT ![aid].totalParticipants = @ + 1]
             /\ resp' = [op |-> "JoinGroupBuying", kind |-> "ok"]

\* groupId is <<>> to open a new group, <<gid>> to join group gid
JoinGroupBuying(u, aid, groupId, quantity) ==
    /\ UNCHANGED <<products, coupons, users, flashSales, now, granted, served,
                   batch, calc>>
    /\ IF aid \notin 1..Len(activities)
       THEN /\ resp' = [op |-> "JoinGroupBuying", kind |-> "NotFound"]
            /\ UNCHANGED <<orders, activities, groups, completions>>
       ELSE IF now < activities[aid].startTime \/ now > activities[aid].endTime
       THEN /\ resp' = [op |-> "JoinGroupBuying", kind |-> "PromotionClosed"]
            /\ UNCHANGED <<orders, activities, groups, completions>>
       ELSE IF groupId # <<>>
       THEN IF ~GroupOpen(groups, groupId[1])
            THEN /\ resp' = [op |-> "JoinGroupBuying", kind |-> "GroupUnavailable"]
                 /\ UNCHANGED <<orders, activities, groups, completions>>
            ELSE JoinGroup(u, aid, groupId[1], quantity, activities, groups, completions)
       ELSE /\ Len(groups) < MaxGroupCount
            /\ JoinGroup(u, aid, Len(groups) + 1, quantity,
                         [activities EXCEPT ![aid].currentGroups = @ + 1],
                         Append(groups,
                                [activityId |-> aid,
                                 leaderId |-> u,
                                 participants |-> <<>>,
                                 requiredSize |-> activities[aid].groupSize,
                                 currentSize |-> 0,
                                 status |-> "recruiting",
                                 expiresAt |-> now + GroupExpiryHours]),
                         Append(completions, 0))

ActivityIds == 1..(MaxActivities + 1)
GroupIds == {<<>>} \cup {<<g>> : g \in 1..(MaxGroupCount + 1)}
JoinQuantities == {1}

NextGroup ==
    \/ \E actor \in {"admin1", "c1"}, productId \in {"prod1", "prod9"},
          groupSize \in 1..MaxGroupSize :
          /\ Len(activities) < MaxActivities
          /\ CreateGroupBuying(actor, productId, groupSize, 5999, 4999,
                               WindowStart, WindowEnd, 100)
    \/ \E u \in Shoppers, aid \in ActivityIds, groupId \in GroupIds,
          quantity \in JoinQuantities :
          JoinGroupBuying(u, aid, groupId, quantity)
    \/ Tick

SpecGroup == Init /\ [][NextGroup]_vars

(***************************************************************************)
(* Two activities on two products, each allowing one group, and joins that *)
(* name any activity and any group                                         *)
(***************************************************************************)
NextCross ==
    \/ \E productId \in Products, groupSize \in {MaxGroupSize - 1, MaxGroupSize} :
          /\ Len(activities) <= MaxActivities
          /\ CreateGroupBuying("admin1", productId, groupSize,
                               SeedProducts[productId].price.original,
                               SeedProducts[productId].price.selling,
                               0, WindowEnd, 1)
    \/ \E u \in Customers, aid \in ActivityIds, groupId \in GroupIds,
          quantity \in JoinQuantities :
          JoinGroupBuying(u, aid, groupId, quantity)

SpecCross == Init /\ [][NextCross]_vars

(***************************************************************************)
(* Create-order requests alone, served in any order                        *)
(***************************************************************************)
NextCreate ==
    \E u \in Buyers, cart \in Carts, code \in CouponCodes :
        CreateOrder(u, cart, code, "online")

SpecCreate == Init /\ [][NextCreate]_vars

(***************************************************************************)
(* The coupon application of create-order as a function of the coupon and  *)
(* the order's subtotal                                                    *)
(***************************************************************************)
CouponInputs ==
    [code : {"SAVE"}, type : {"percentage", "fixed"}, value : {10, 50, 150},
     minAmount : {0, 100}, maxDiscount : {<<>>, <<0>>, <<50>>}, maxUsage : {1000},
     usageCount : {0}, status : {"active"},
     validFrom : {0}, validTo : {CouponValidHours}]

TotalAmounts == {0, 40, 100, 1000}

InitCoupon ==
    /\ products = SeedProducts
    /\ orders = <<>>
    /\ coupons = SeedCoupons
    /\ users = SeedUsers
    /\ flashSales = <<>>
    /\ activities = <<>>
    /\ groups = <<>>
    /\ now = 0
    /\ resp = [op |-> "none", kind |-> "none"]
    /\ granted = [p \in Products |-> 0]
    /\ served = 0
    /\ completions = <<>>
    /\ batch = NoBatch
    /\ calc \in [active : {TRUE}, coupon : CouponInputs, totalAmount : TotalAmounts,
                 discount : {<<>>}]

Compute ==
    /\ calc.active
    /\ calc.discount = <<>>
    /\ calc' = [calc EXCEPT !.discount = <<ApplyCoupon(calc.coupon, calc.totalAmount)>>]
    /\ UNCHANGED <<coreVars, promoVars, resp, histVars, batch>>

SpecCoupon == InitCoupon /\ [][Compute]_vars

(***************************************************************************)
(* routes/admin: POST /coupons, and create-order requests that redeem the  *)
(* coupons it stores                                                       *)
(***************************************************************************)
MaxCoupons == 2      \* coupons stored, coupon1 included

\* code.toUpperCase(), on the codes the requests carry
ToUpperCase(code) ==
    CASE code = "save"      -> "SAVE"
      [] code = "newuser10" -> "NEWUSER10"
      [] OTHER              -> code

CreateCoupon(actor, code, type, value, minAmount, maxDiscount, maxUsage, validFrom, validTo) ==
    /\ users[actor].role = "admin"
    /\ UNCHANGED <<products, orders, users, promoVars, histVars, batch, calc>>
    /\ IF code = "" \/ type = "" \/ value = 0
       THEN /\ resp' = [op |-> "CreateCoupon", kind |-> "MissingFields"]
            /\ UNCHANGED coupons
       ELSE IF \E i \in 1..Len(coupons) : coupons[i].code = code
       THEN /\ resp' = [op |-> "CreateCoupon", kind |-> "CodeExists"]
            /\ UNCHANGED coupons
       ELSE /\ Len(coupons) < MaxCoupons
            /\ coupons' = Append(coupons,
                              [code |-> ToUpperCase(code), type |-> type,
                               value |-> value, minAmount |-> minAmount,
                               maxDiscount |-> maxDiscount, maxUsage |-> maxUsage,
                               usageCount |-> 0, status |-> "active",
                               validFrom |-> validFrom, validTo |-> validTo])
            /\ resp' = [op |-> "CreateCoupon", kind |-> "ok"]

\* a minimum order amount no request's item list reaches
MinAmountHigh == 1000000
RedeemCodes == {<<>>, <<"NEWUSER10">>, <<"SAVE">>}

NextRedeem ==
    \/ \E code \in {"save", "SAVE"}, type \in {"percentage", "fixed"},
          value \in {0, 10}, minAmount \in {0, MinAmountHigh},
          validFrom \in {0, TickHours} :
          CreateCoupon("admin1", code, type, value, minAmount, <<>>, 1,
                       validFrom, CouponValidHours)
    \/ \E u \in Buyers, cart \in Carts, code \in RedeemCodes :
          CreateOrder(u, cart, code, "online")

SpecRedeem == Init /\ [][NextRedeem]_vars

(***************************************************************************)
(* Payments by buyers of every referral chain: the users as /register and  *)
(* the admin's POST /users can leave them, each referred by nobody, by a   *)
(* user id that is not stored, or by a user stored before                  *)
(***************************************************************************)
\* the users stored before u
Earlier(u) ==
    CASE u = "admin1"    -> {}
      [] u = "supplier1" -> {"admin1"}
      [] u = "c2"        -> {"admin1", "supplier1"}
      [] OTHER           -> {"admin1", "supplier1", "c2"}

ReferrerChoices(u) == {<<>>, <<"ghost">>} \cup {<<r>> : r \in Earlier(u)}

InitPay ==
    /\ products = SeedProducts
    /\ orders = <<>>
    /\ coupons = SeedCoupons
    /\ users \in {[u \in Users |-> [SeedUsers[u] EXCEPT !.referrerId = f[u]]] :
                     f \in {g \in [Users -> UNION {ReferrerChoices(u) : u \in Users}] :
                               \A u \in Users : g[u] \in ReferrerChoices(u)}}
    /\ flashSales = <<>>
    /\ activities = <<>>
    /\ groups = <<>>
    /\ now = 0
    /\ resp = [op |-> "none", kind |-> "none"]
    /\ granted = [p \in Products |-> 0]
    /\ served = 0
    /\ completions = <<>>
    /\ batch = NoBatch
    /\ calc = NoCalc

NextPay ==
    \/ \E u \in Buyers, cart \in Carts, code \in CouponCodes :
          CreateOrder(u, cart, code, "online") /\ Len(orders') <= MaxOrders
    \/ \E actor \in Users, oid \in OrderIds :
          PayOrder(actor, oid)

SpecPay == InitPay /\ [][NextPay]_vars

(***************************************************************************)
(* The life of one order: a single-item order, then status updates,        *)
(* payments and verifications in any order                                 *)
(***************************************************************************)
MaxHistory == 4      \* timeline entries of the order

SingleCarts == {<<item>> : item \in {c \in ItemChoices : c.productId \in Products}}

NextOrder ==
    \/ \E u \in Buyers, cart \in SingleCarts, orderType \in OrderTypes :
          CreateOrder(u, cart, <<>>, orderType) /\ Len(orders') <= MaxOrders
    \/ \E actor \in Users, oid \in OrderIds, status \in TargetStatuses :
          UpdateStatus(actor, oid, status) /\ TimelinesWithin(orders', MaxHistory)
    \/ \E actor \in Users, oid \in OrderIds :
          PayOrder(actor, oid) /\ TimelinesWithin(orders', MaxHistory)
    \/ \E actor \in Users, oid \in OrderIds, codeMatches \in BOOLEAN :
          VerifyOrder(actor, oid, codeMatches) /\ TimelinesWithin(orders', MaxHistory)

SpecOrder == Init /\ [][NextOrder]_vars

(***************************************************************************)
(* Orders of every origin: an order stored by create-order, by a           *)
(* flash-sale purchase or by a group completion, then status updates and   *)
(* payments of it                                                          *)
(***************************************************************************)
NextShop ==
    \/ CreateFlashSale("admin1", "prod1", 9999, 7999, MaxSaleStock, 0, WindowEnd, MaxLimit)
    \/ \E u \in Buyers, sid \in SaleIds, quantity \in Quantities :
          /\ PurchaseFlashSale(u, sid, quantity)
          /\ UNCHANGED batch
          /\ Len(orders') <= MaxOrders
    \/ /\ Len(activities) < MaxActivities
       /\ CreateGroupBuying("admin1", "prod1", 1, 5999, 4999, 0, WindowEnd, 100)
    \/ \E u \in Buyers, aid \in ActivityIds, quantity \in JoinQuantities :
          JoinGroupBuying(u, aid, <<>>, quantity) /\ Len(orders') <= MaxOrders
    \/ \E u \in Buyers, cart \in SingleCarts :
          CreateOrder(u, cart, <<>>, "online") /\ Len(orders') <= MaxOrders
    \/ \E actor \in Users, oid \in OrderIds, status \in TargetStatuses :
          UpdateStatus(actor, oid, status) /\ TimelinesWithin(orders', MaxTimeline)
    \/ \E actor \in Users, oid \in OrderIds :
          PayOrder(actor, oid) /\ TimelinesWithin(orders', MaxTimeline)

SpecShop == Init /\ [][NextShop]_vars

(***************************************************************************)
(* Groups that outlive their 24 hours: an activity open for the whole      *)
(* run of the clock, joins and ticks                                       *)
(***************************************************************************)
NextExpiry ==
    \/ \E groupSize \in 2..MaxGroupSize :
          /\ Len(activities) < MaxActivities
          /\ CreateGroupBuying("admin1", "prod1", groupSize, 5999, 4999, 0, MaxTime, 100)
    \/ \E u \in Shoppers, aid \in ActivityIds, groupId \in GroupIds,
          quantity \in JoinQuantities :
          JoinGroupBuying(u, aid, groupId, quantity)
    \/ Tick

SpecExpiry == Init /\ [][NextExpiry]_vars

(***************************************************************************)
(* The promotions together: a flash sale and a group-buying activity of    *)
(* the same product, purchases and joins in any order                      *)
(***************************************************************************)
NextPromo ==
    \/ CreateFlashSale("admin1", "prod1", 9999, 7999, MaxSaleStock, 0, WindowEnd, MaxLimit)
    \/ \E u \in Customers, sid \in SaleIds, quantity \in JoinQuantities :
          PurchaseFlashSale(u, sid, quantity) /\ UNCHANGED batch
    \/ /\ Len(activities) < MaxActivities
       /\ CreateGroupBuying("admin1", "prod1", MaxGroupSize - 1, 5999, 4999, 0, WindowEnd, 100)
    \/ \E u \in Customers, aid \in ActivityIds, groupId \in GroupIds,
          quantity \in JoinQuantities :
          JoinGroupBuying(u, aid, groupId, quantity)

SpecPromo == Init /\ [][NextPromo]_vars

(***************************************************************************)
(* Payments under every referral graph: each user referred by nobody, by   *)
(* an id that is not stored, or by any stored user, itself included (the   *)
(* admin's PATCH /users/:userId writes any referrerId), cycles included    *)
(***************************************************************************)
AnyReferrer == {<<>>, <<"ghost">>} \cup {<<r>> : r \in Users}

InitGraph ==
    /\ products = SeedProducts
    /\ orders = <<>>
    /\ coupons = SeedCoupons
    /\ users \in {[u \in Users |-> [SeedUsers[u] EXCEPT !.referrerId = f[u]]] :
                     f \in [Users -> AnyReferrer]}
    /\ flashSales = <<>>
    /\ activities = <<>>
    /\ groups = <<>>
    /\ now = 0
    /\ resp = [op |-> "none", kind |-> "none"]
    /\ granted = [p \in Products |-> 0]
    /\ served = 0
    /\ completions = <<>>
    /\ batch = NoBatch
    /\ calc = NoCalc

NextGraph ==
    \/ \E u \in Buyers, cart \in SingleCarts :
          CreateOrder(u, cart, <<>>, "online") /\ Len(orders') <= MaxOrders
    \/ \E actor \in Users, oid \in OrderIds :
          PayOrder(actor, oid)

SpecGraph == InitGraph /\ [][NextGraph]_vars

(***************************************************************************)
(* routes/admin: PATCH /coupons/:couponId, and the admin's coupon          *)
(* creations and updates in any order                                      *)
(***************************************************************************)
\* Object.keys(updates).forEach(key => coupon[key] = updates[key]) for a
\* request body that carries a code
UpdateCoupon(actor, cid, code) ==
    /\ users[actor].role = "admin"
    /\ UNCHANGED <<products, orders, users, promoVars, histVars, batch, calc>>
    /\ IF cid \notin 1..Len(coupons)
       THEN /\ resp' = [op |-> "UpdateCoupon", kind |-> "NotFound"]
            /\ UNCHANGED coupons
       ELSE /\ coupons' = [coupons EXCEPT ![cid].code = code]
            /\ resp' = [op |-> "UpdateCoupon", kind |-> "ok"]

NextAdmin ==
    \/ \E code \in {"save", "SAVE", "newuser10"}, type \in {"percentage", "fixed"},
          value \in {0, 10, 50} :
          CreateCoupon("admin1", code, type, value, 0, <<>>, 1, 0, CouponValidHours)
    \/ \E cid \in 1..(MaxCoupons + 1), code \in {"save", "SAVE", "NEWUSER10"} :
          UpdateCoupon("admin1", cid, code)

SpecAdmin == Init /\ [][NextAdmin]_vars

(***************************************************************************)
(* Properties                                                              *)
(***************************************************************************)

\* C1: for every product, in every state reachable by create-order, status
\* update and pay requests, available + reserved <= total.
C1_StockWithinTotal ==
    \A p \in Products :
        products[p].inventory.available + products[p].inventory.reserved
            <= products[p].inventory.total

\* an order was reserved, confirmed by a status update to paid, and released
\* by a refund
C1_Witness ==
    \E i \in 1..Len(orders) :
        /\ orders[i].timeline = << <<"created", "paid", "refunded">> >>
        /\ \E p \in Products : products[p].inventory.total < SeedProducts[p].inventory.total

\* C2: for every product, in every reachable state (repeated cancel or
\* refund of one order, and refund of a confirmed order, included),
\* available >= 0 and reserved >= 0.
C2_NonNegative ==
    \A p \in Products :
        /\ products[p].inventory.available >= 0
        /\ products[p].inventory.reserved >= 0

\* the first line item of cart, from item i on, that the create-order loop
\* stops at (0 when it stops at none), given that the items before i were
\* reserved; avail is the stock available at that moment
RECURSIVE FirstBlocked(_, _, _)
FirstBlocked(cart, i, avail) ==
    IF i > Len(cart) THEN [at |-> 0, short |-> FALSE]
    ELSE LET p == cart[i].productId IN
         IF p \notin Products THEN [at |-> i, short |-> FALSE]
         ELSE IF avail[p] < cart[i].quantity THEN [at |-> i, short |-> TRUE]
         ELSE FirstBlocked(cart, i + 1,
                           [avail EXCEPT ![p] = @ - cart[i].quantity])

Available == [p \in Products |-> products[p].inventory.available]

\* C3: concurrent create-order requests, served in any order, never jointly
\* reserve more of a product than was available before them, and a request
\* is refused with InsufficientStock whenever the stock available when one
\* of its items is served is less than the item's quantity.
C3_NoOverCommit ==
    [][\A u \in Buyers, cart \in Carts, code \in CouponCodes :
          CreateOrder(u, cart, code, "online") =>
             LET b == FirstBlocked(cart, 1, Available) IN
             /\ \A p \in Products :
                   granted'[p] <= SeedProducts[p].inventory.available
             /\ b.short => /\ resp'.kind = "InsufficientStock"
                           /\ orders' = orders
             /\ (cart # <<>> /\ b.at = 0) =>
                   /\ resp'.kind = "ok"
                   /\ \A p \in Products :
                         /\ products'[p].inventory.available
                               = products[p].inventory.available - QtyOf(cart, p)
                         /\ products'[p].inventory.available >= 0]_vars

\* a request was refused for lack of stock after another one was granted
C3_Witness ==
    /\ resp = [op |-> "CreateOrder", kind |-> "InsufficientStock"]
    /\ Len(orders) >= 1
    /\ \E p \in Products : granted[p] >= QtyBig

\* C4: a create-order request that fails leaves every product's counters at
\* their values before the call and stores no order.
C4_RollbackOnFailure ==
    [][\A u \in Buyers, cart \in Carts, code \in CouponCodes :
          (CreateOrder(u, cart, code, "online") /\ resp'.kind # "ok") =>
             (products' = products /\ orders' = orders)]_vars

\* C5: a batch of N users who have not purchased, each asking for one unit
\* of a sale inside its window with M units left and limitPerUser >= 1:
\* whatever the order of service, of the requests served so far min(served,
\* M) succeeded and the others were refused for lack of stock, and soldCount
\* grew by the number that succeeded; at the end that is min(N, M).
C5_BatchAdmission ==
    batch.active =>
        LET done == Cardinality(batch.users) - Cardinality(batch.pending)
            m == Min(done, batch.remaining)
        IN  /\ batch.succeeded = m
            /\ batch.refusedStock = done - m
            /\ batch.refusedOther = 0
            /\ flashSales[batch.sale].soldCount = batch.soldBefore + m

\* a batch was served to its end with more users than units left, and at
\* least one unit left
C5_Witness ==
    /\ batch.active
    /\ batch.pending = {}
    /\ batch.remaining >= 1
    /\ Cardinality(batch.users) > batch.remaining
    /\ batch.succeeded = batch.remaining

\* C6: for every flash sale, in every reachable state, soldCount <=
\* inventory and every user's purchased quantity is <= limitPerUser.
C6_SaleWithinLimits ==
    \A sid \in 1..Len(flashSales) :
        /\ flashSales[sid].soldCount <= flashSales[sid].inventory
        /\ \A u \in DOMAIN flashSales[sid].participants :
              flashSales[sid].participants[u] <= flashSales[sid].limitPerUser

\* a sale is sold out, by a user who bought up to the limit
C6_Witness ==
    \E sid \in 1..Len(flashSales) :
        /\ flashSales[sid].inventory >= 1
        /\ flashSales[sid].soldCount = flashSales[sid].inventory
        /\ \E u \in DOMAIN flashSales[sid].participants :
              /\ flashSales[sid].limitPerUser >= 2
              /\ flashSales[sid].participants[u] = flashSales[sid].limitPerUser

\* C7: a purchase inside the window, with stock left for it, by a user whose
\* purchased quantity plus the requested one exceeds limitPerUser is refused
\* with QuotaExceeded, stores no order and leaves the sale as it was.
C7_QuotaRefusal ==
    [][\A u \in Shoppers, sid \in 1..Len(flashSales), quantity \in Quantities :
          ( /\ PurchaseFlashSale(u, sid, quantity)
            /\ flashSales[sid].startTime <= now /\ now <= flashSales[sid].endTime
            /\ flashSales[sid].soldCount + quantity <= flashSales[sid].inventory
            /\ UserPurchased(flashSales[sid], u) + quantity
                  > flashSales[sid].limitPerUser )
          => ( /\ resp'.kind = "QuotaExceeded"
               /\ orders' = orders
               /\ flashSales' = flashSales )]_vars

\* a user who had bought was refused a further unit while the sale had
\* stock left
C7_Witness ==
    /\ resp = [op |-> "PurchaseFlashSale", kind |-> "QuotaExceeded"]
    /\ \E sid \in 1..Len(flashSales) :
          /\ flashSales[sid].soldCount < flashSales[sid].inventory
          /\ \E u \in DOMAIN flashSales[sid].participants :
                flashSales[sid].participants[u] = flashSales[sid].limitPerUser

\* the orders stored for group gid
GroupOrders(gid) == {i \in 1..Len(orders) : orders[i].groupId = gid}

\* C8: a group is completed at most once; once it is completed there are
\* exactly requiredSize orders for it, one for each participant, in every
\* later state (no later join adds any); before that there are none.
C8_CompletedOnce ==
    \A gid \in 1..Len(groups) :
        /\ completions[gid] <= 1
        /\ (groups[gid].status = "completed") = (completions[gid] = 1)
        /\ IF groups[gid].status = "completed"
           THEN /\ Cardinality(GroupOrders(gid)) = groups[gid].requiredSize
                /\ \A k \in 1..Len(groups[gid].participants) :
                      Cardinality({i \in GroupOrders(gid) :
                          orders[i].userId = groups[gid].participants[k].userId}) = 1
           ELSE GroupOrders(gid) = {}

\* a group of three was completed, and a later join of it was refused
C8_Witness ==
    /\ resp = [op |-> "JoinGroupBuying", kind |-> "GroupUnavailable"]
    /\ \E gid \in 1..Len(groups) :
          /\ groups[gid].status = "completed"
          /\ groups[gid].requiredSize = 3
          /\ Cardinality(GroupOrders(gid)) = 3

\* C9: for every group, in every reachable state, currentSize <=
\* requiredSize, currentSize is the number of participants, and the status
\* is completed exactly when currentSize = requiredSize.
C9_GroupSize ==
    \A gid \in 1..Len(groups) :
        /\ groups[gid].currentSize <= groups[gid].requiredSize
        /\ groups[gid].currentSize = Len(groups[gid].participants)
        /\ (groups[gid].status = "completed")
              = (groups[gid].currentSize = groups[gid].requiredSize)

\* one group is completed while another one is still recruiting
C9_Witness ==
    \E g1, g2 \in 1..Len(groups) :
        /\ groups[g1].status = "completed"
        /\ groups[g1].requiredSize >= 2
        /\ groups[g2].status = "recruiting"
        /\ groups[g2].currentSize >= 1

\* C10: an applied percentage coupon yields min(subtotal * value / 100,
\* maxDiscount), where only an absent maxDiscount means no cap (a present
\* one, 0 included, caps the discount); a fixed coupon yields min(value,
\* subtotal).  Amounts in hundredths.
C10_DiscountFormula ==
    (calc.active /\ calc.discount # <<>>
        /\ calc.totalAmount >= calc.coupon.minAmount) =>
       calc.discount[1] =
          IF calc.coupon.type = "percentage"
          THEN IF calc.coupon.maxDiscount = <<>>
               THEN calc.totalAmount * calc.coupon.value
               ELSE Min(calc.totalAmount * calc.coupon.value,
                        calc.coupon.maxDiscount[1] * 100)
          ELSE Min(calc.coupon.value, calc.totalAmount) * 100

\* C11: whatever the coupon's type and value, the discount applied to an
\* order is at most the order's subtotal, so that amount.total >= 0
\* (amounts in hundredths).
C11_DiscountWithinSubtotal ==
    (calc.active /\ calc.discount # <<>>) =>
        /\ calc.discount[1] <= calc.totalAmount * 100
        /\ calc.totalAmount * 100 - calc.discount[1] >= 0

\* C12: for every coupon, in every state reachable by coupon creations and
\* create-order requests that redeem it in any order, usageCount <= maxUsage.
C12_UsageWithinMax ==
    \A i \in 1..Len(coupons) : coupons[i].usageCount <= coupons[i].maxUsage

\* the coupons a code names, active or not
CouponsOf(code) == {i \in 1..Len(coupons) : coupons[i].code = code}

\* a create-order request whose items can all be reserved carries a code
\* that no active coupon has, or one whose coupon is outside its validity
\* interval, asks for more than the subtotal, or is used up
CouponRefusable(u, cart, code) ==
    LET r == ReserveLoop(cart, 1, users[u].role, products, 0, <<>>) IN
    /\ cart # <<>>
    /\ r.kind = "ok"
    /\ code # <<>>
    /\ \/ \A i \in CouponsOf(code[1]) : coupons[i].status # "active"
       \/ \E i \in CouponsOf(code[1]) :
             /\ coupons[i].status = "active"
             /\ \/ now < coupons[i].validFrom
                \/ now > coupons[i].validTo
                \/ r.totalAmount < coupons[i].minAmount
                \/ coupons[i].usageCount >= coupons[i].maxUsage

\* C13: a create-order request with a coupon code that is unknown or not
\* active, outside [validFrom, validTo], below minAmount or used up fails
\* with CouponInvalid, CouponExpired, AmountTooLow or CouponExhausted, and
\* stores no order, keeps no stock reserved and leaves usageCount as it was.
C13_CouponValidation ==
    [][\A u \in Buyers, cart \in Carts, code \in RedeemCodes :
          (CreateOrder(u, cart, code, "online") /\ CouponRefusable(u, cart, code))
          => ( /\ resp'.kind \in {"CouponInvalid", "CouponExpired",
                                  "AmountTooLow", "CouponExhausted"}
               /\ orders' = orders
               /\ products' = products
               /\ coupons' = coupons )]_vars

\* the referrer of user u when u names one and that user is stored
ReferrerOf(u) ==
    IF u # <<>> /\ users[u[1]].referrerId # <<>>
          /\ users[u[1]].referrerId[1] \in Users
    THEN users[u[1]].referrerId
    ELSE <<>>

\* the share, in percent of the order total, of user x in the commission of
\* an order paid by buyer: 5 for the buyer's referrer, 3 for that one's
\* referrer, 1 for the next one, and nothing from the first level on whose
\* referrer is absent or not stored
Share(x, buyer) ==
    LET l1 == ReferrerOf(<<buyer>>)
        l2 == ReferrerOf(l1)
        l3 == ReferrerOf(l2)
    IN  IF l1 = <<x>> THEN 5
        ELSE IF l2 = <<x>> THEN 3
        ELSE IF l3 = <<x>> THEN 1
        ELSE 0

\* C14: when an order of total T is paid, the wallet of the buyer's level-1
\* referrer grows by 5% of T, the level-2 referrer's by 3% of T and the
\* level-3 referrer's by 1% of T; a level whose referrer is absent or not
\* stored, and every level above it, receives nothing, no other wallet
\* changes, and the payment of a payable order succeeds whatever the chain
\* (wallets in ten-thousandths, totals in hundredths).
C14_CommissionFanOut ==
    [][\A actor \in Users, oid \in 1..Len(orders) :
          ( /\ PayOrder(actor, oid)
            /\ orders[oid].userId = actor
            /\ orders[oid].paymentStatus # "paid" )
          => ( /\ resp'.kind = "ok"
               /\ orders'[oid].paymentStatus = "paid"
               /\ \A x \in Users :
                     users'[x].wallet =
                        users[x].wallet
                           + orders[oid].amount.total * Share(x, actor) )]_vars

\* an order was paid by a buyer with three referrers above them, and each
\* of the three was credited
C14_Witness ==
    /\ resp = [op |-> "PayOrder", kind |-> "ok"]
    /\ \E oid \in 1..Len(orders) :
          LET l1 == ReferrerOf(<<orders[oid].userId>>)
              l2 == ReferrerOf(l1)
              l3 == ReferrerOf(l2)
          IN  /\ l3 # <<>>
              /\ orders[oid].amount.total > 0
              /\ users[l1[1]].wallet = SeedUsers[l1[1]].wallet + 5 * orders[oid].amount.total
              /\ users[l2[1]].wallet = SeedUsers[l2[1]].wallet + 3 * orders[oid].amount.total
              /\ users[l3[1]].wallet = SeedUsers[l3[1]].wallet + orders[oid].amount.total

\* what the orders whose paymentStatus is paid owe user x in commission,
\* each order counted once
CommissionOwed(x) ==
    SumSeq([k \in 1..Len(orders) |->
               IF orders[k].paymentStatus = "paid"
               THEN orders[k].amount.total * Share(x, orders[k].userId)
               ELSE 0])

\* C15: over any sequence of pay, status-update and verify requests on an
\* order (a repeated pay after a status update included), every referrer's
\* wallet holds the commission of that order at most once: it is the seed
\* wallet plus one commission for each order that was paid.
C15_CommissionOnce ==
    \A x \in Users : users[x].wallet = SeedUsers[x].wallet + CommissionOwed(x)

\* a paid order was put back to pending by a status update, and a second
\* pay request for it was refused
C15_Witness ==
    /\ resp = [op |-> "PayOrder", kind |-> "AlreadyPaid"]
    /\ \E oid \in 1..Len(orders) :
          /\ orders[oid].status = "pending"
          /\ orders[oid].paymentStatus = "paid"
          /\ orders[oid].timeline = << <<"created", "paid", "pending">> >>
          /\ orders[oid].amount.total > 0
          /\ users["c2"].wallet = 5 * orders[oid].amount.total

\* the transition table: the statuses an order may move to from status st
Reachable(st) ==
    CASE st = "pending" -> {"paid", "cancelled"}
      [] st = "paid"    -> {"shipped", "refunded"}
      [] st = "shipped" -> {"delivered", "refunded"}
      [] OTHER          -> {}

\* C16: a status update by a user allowed to update the order, to a target
\* that the table pending -> {paid, cancelled}, paid -> {shipped, refunded},
\* shipped -> {delivered, refunded} does not reach from the order's status
\* (any target from delivered, any target outside the six statuses), fails
\* with InvalidTransition and leaves status, timeline and inventory as they
\* were.
C16_TransitionTable ==
    [][\A actor \in Users, oid \in 1..Len(orders), status \in TargetStatuses :
          ( /\ UpdateStatus(actor, oid, status)
            /\ CanUpdate(actor, orders[oid], status)
            /\ status \notin Reachable(orders[oid].status) )
          => ( /\ resp'.kind = "InvalidTransition"
               /\ orders' = orders
               /\ products' = products )]_vars

TerminalStatuses == {"delivered", "cancelled", "refunded"}

\* C17: once an order's status is delivered, cancelled or refunded, no
\* request (status update, pay, verify) changes its status again.
C17_TerminalAbsorbing ==
    [][\A oid \in 1..Len(orders) :
          orders[oid].status \in TerminalStatuses
             => orders'[oid].status = orders[oid].status]_vars

\* the sum of the line totals of an order, in hundredths
LineTotals(order) ==
    SumSeq([k \in 1..Len(order.items) |-> order.items[k].total]) * 100

\* C18: for every stored order, whatever created it, amount.total =
\* amount.subtotal - amount.discount and the line totals sum to
\* amount.subtotal.
C18_AmountConsistent ==
    \A oid \in 1..Len(orders) :
        /\ orders[oid].amount.total
              = orders[oid].amount.subtotal - orders[oid].amount.discount
        /\ LineTotals(orders[oid]) = orders[oid].amount.subtotal

\* C19: whenever a create-order, status-update, pay, flash-sale purchase or
\* group join request is answered with an error, the orders, the product
\* inventory, the coupons, the flash sales, the groups, the activities and
\* the users' wallets and points are exactly as before the request; orders
\* stored by a flash-sale purchase or a group completion included.
C19_AllOrNothing ==
    [][resp'.kind \notin {"ok", "none"} =>
          /\ orders' = orders
          /\ products' = products
          /\ coupons' = coupons
          /\ flashSales' = flashSales
          /\ groups' = groups
          /\ activities' = activities
          /\ users' = users]_vars

\* C20: every step that takes an order from pending to paid, by a pay
\* request or by a status update, confirms its stock: for each product,
\* reserved and total go down by the quantity the order holds of it and
\* available stays as it was.
C20_PaidConfirmsStock ==
    [][\A oid \in 1..Len(orders) :
          (orders[oid].status = "pending" /\ orders'[oid].status = "paid")
          => \A p \in Products :
                LET qty == QtyOf(orders[oid].items, p) IN
                /\ products'[p].inventory.reserved = products[p].inventory.reserved - qty
                /\ products'[p].inventory.total = products[p].inventory.total - qty
                /\ products'[p].inventory.available = products[p].inventory.available]_vars

\* floor(1% of an amount given in hundredths), in whole points
OnePercentFloor(total) == (total \div 100) \div 100

\* C21: every step that takes an order from pending to paid, by a pay
\* request or by a status update to paid, credits the buyer floor(1% of
\* amount.total) points and each referrer of the buyer's chain its
\* commission on that order.
C21_PaidCreditsOnce ==
    [][\A oid \in 1..Len(orders) :
          (orders[oid].status = "pending" /\ orders'[oid].status = "paid")
          => LET buyer == orders[oid].userId
                 total == orders[oid].amount.total
             IN  /\ users'[buyer].points = users[buyer].points + OnePercentFloor(total)
                 /\ \A x \in Users :
                       users'[x].wallet = users[x].wallet + total * Share(x, buyer)]_vars

\* C22: a pay request by the owner of an order whose status is not pending
\* fails and leaves the order's status and paymentStatus and every wallet
\* and points balance as they were.
C22_PayOnlyPending ==
    [][\A actor \in Users, oid \in 1..Len(orders) :
          ( /\ PayOrder(actor, oid)
            /\ orders[oid].status # "pending" )
          => ( /\ resp'.kind # "ok"
               /\ orders'[oid].status = orders[oid].status
               /\ orders'[oid].paymentStatus = orders[oid].paymentStatus
               /\ users' = users )]_vars

\* the status update releases the order's stock
Releases(status) == status \in {"cancelled", "refunded"}

\* the status update confirms the order's stock
Confirms(oldStatus, status) == status = "paid" /\ oldStatus = "pending"

\* C23: a status update that would confirm or release a quantity of a
\* product whose reserved is less than that quantity fails with
\* InvalidState and changes no inventory counter; otherwise a release adds
\* the quantity to available, takes it from reserved and leaves total.
C23_GuardedInventory ==
    [][\A actor \in Users, oid \in 1..Len(orders), status \in TargetStatuses :
          ( /\ UpdateStatus(actor, oid, status)
            /\ CanUpdate(actor, orders[oid], status)
            /\ Releases(status) \/ Confirms(orders[oid].status, status) )
          => IF \E p \in Products :
                   products[p].inventory.reserved < QtyOf(orders[oid].items, p)
             THEN /\ resp'.kind = "InvalidState"
                  /\ products' = products
             ELSE Releases(status) =>
                     \A p \in Products :
                        LET qty == QtyOf(orders[oid].items, p) IN
                        /\ products'[p].inventory.available
                              = products[p].inventory.available + qty
                        /\ products'[p].inventory.reserved
                              = products[p].inventory.reserved - qty
                        /\ products'[p].inventory.total = products[p].inventory.total]_vars

\* C24: a flash-sale purchase before startTime fails with
\* PromotionNotStarted and one after endTime with PromotionEnded, storing no
\* order and leaving soldCount and the purchased map; a purchase at an
\* instant of [startTime, endTime], the bounds included, is not refused for
\* timing.
C24_SaleWindow ==
    [][\A u \in Shoppers, sid \in 1..Len(flashSales), quantity \in Quantities :
          PurchaseFlashSale(u, sid, quantity)
          => LET sale == flashSales[sid] IN
             /\ now < sale.startTime =>
                   /\ resp'.kind = "PromotionNotStarted"
                   /\ orders' = orders /\ flashSales' = flashSales
             /\ now > sale.endTime =>
                   /\ resp'.kind = "PromotionEnded"
                   /\ orders' = orders /\ flashSales' = flashSales
             /\ (sale.startTime <= now /\ now <= sale.endTime) =>
                   resp'.kind \notin {"PromotionNotStarted", "PromotionEnded"}]_vars

\* a purchase was refused after the end of a sale that sold at the instant
\* of its startTime or of its endTime
C24_Witness ==
    /\ resp = [op |-> "PurchaseFlashSale", kind |-> "PromotionEnded"]
    /\ \E sid \in 1..Len(flashSales) :
          /\ now > flashSales[sid].endTime
          /\ flashSales[sid].soldCount >= 1

\* no user is twice in the participants of a group
NoDuplicateParticipants(gs) ==
    \A gid \in 1..Len(gs) :
        \A j, k \in 1..Len(gs[gid].participants) :
            gs[gid].participants[j].userId = gs[gid].participants[k].userId => j = k

\* C25: a join, inside the activity's window, that names a group which does
\* not exist or is not recruiting is refused, and one by a user already in
\* the group's participants is refused with AlreadyJoined; the groups, the
\* activity counters and the orders stay as they were, and no user is ever
\* twice in the participants of a group.
C25_JoinRejections ==
    [][\A u \in Shoppers, aid \in 1..Len(activities),
          g \in 1..(MaxGroupCount + 1), quantity \in JoinQuantities :
          ( /\ JoinGroupBuying(u, aid, <<g>>, quantity)
            /\ activities[aid].startTime <= now /\ now <= activities[aid].endTime )
          => /\ (g > Len(groups) \/ groups[g].status # "recruiting") =>
                   /\ resp'.kind = "GroupUnavailable"
                   /\ groups' = groups /\ activities' = activities /\ orders' = orders
             /\ (g <= Len(groups) /\ groups[g].status = "recruiting"
                   /\ \E k \in 1..Len(groups[g].participants) :
                         groups[g].participants[k].userId = u) =>
                   /\ resp'.kind = "AlreadyJoined"
                   /\ groups' = groups /\ activities' = activities /\ orders' = orders
             /\ NoDuplicateParticipants(groups')]_vars

\* a participant of a recruiting group who is not its leader was refused a
\* second join
C25_Witness ==
    /\ resp = [op |-> "JoinGroupBuying", kind |-> "AlreadyJoined"]
    /\ \E gid \in 1..Len(groups) :
          /\ groups[gid].status = "recruiting"
          /\ Len(groups[gid].participants) = 2

\* C26: a join that names a group after the group's expiresAt (its creation
\* plus 24 hours) adds no participant to it and does not complete it, and
\* the group, if it was recruiting, is expired afterwards.
C26_GroupExpiry ==
    [][\A u \in Shoppers, aid \in 1..Len(activities),
          g \in 1..Len(groups), quantity \in JoinQuantities :
          ( /\ JoinGroupBuying(u, aid, <<g>>, quantity)
            /\ now > groups[g].expiresAt )
          => /\ groups'[g].participants = groups[g].participants
             /\ groups'[g].status # "completed" \/ groups[g].status = "completed"
             /\ groups[g].status = "recruiting" => groups'[g].status = "expired"]_vars

\* the timeline tl, extended or not, is still there at the head of tl2
KeepsEntries(tl, tl2) ==
    /\ Len(tl2) >= Len(tl)
    /\ SubSeq(tl2, 1, Len(tl)) = tl

\* C27: every stored order, whatever its origin, has a timeline; a request
\* that succeeds in changing an order's status appends exactly one entry
\* with the new status, and no request changes or removes entries.
C27_TimelineAppendOnly ==
    [][\A oid \in 1..Len(orders') :
          /\ orders'[oid].timeline # <<>>
          /\ (oid <= Len(orders) /\ orders[oid].timeline # <<>>) =>
                /\ KeepsEntries(orders[oid].timeline[1], orders'[oid].timeline[1])
                /\ orders'[oid].status # orders[oid].status =>
                      orders'[oid].timeline[1]
                         = Append(orders[oid].timeline[1], orders'[oid].status)]_vars

\* C28: a flash-sale purchase and a group-buying join, completing the group
\* or not, leave total, available and reserved of every product unchanged.
C28_PromotionsLeaveInventory ==
    [][resp'.op \in {"PurchaseFlashSale", "JoinGroupBuying"} =>
          \A p \in Products :
             products'[p].inventory = products[p].inventory]_vars

\* units of a flash sale were sold and a group was completed with its
\* orders stored, on the seed inventory
C28_Witness ==
    /\ \E sid \in 1..Len(flashSales) : flashSales[sid].soldCount >= 2
    /\ \E gid \in 1..Len(groups) :
          /\ groups[gid].status = "completed"
          /\ groups[gid].requiredSize >= 2
          /\ GroupOrders(gid) # {}
    /\ \E oid \in 1..Len(orders) : orders[oid].orderType = "flash_sale"
    /\ products = SeedProducts

\* C29: a status update that puts an order to cancelled or refunded leaves
\* the wallet and the points of every user unchanged: commission and points
\* of a paid order are not taken back.
C29_NoClawback ==
    [][(resp'.op = "UpdateStatus" /\ \E oid \in 1..Len(orders) :
           /\ orders'[oid] # orders[oid]
           /\ orders'[oid].status \in {"cancelled", "refunded"})
       => \A x \in Users :
             /\ users'[x].wallet = users[x].wallet
             /\ users'[x].points = users[x].points]_vars

\* an order was paid, with points and commission credited, and then
\* refunded, and the credits are still there
C29_Witness ==
    /\ resp = [op |-> "UpdateStatus", kind |-> "ok"]
    /\ \E oid \in 1..Len(orders) :
          /\ orders[oid].status = "refunded"
          /\ orders[oid].paymentStatus = "paid"
          /\ orders[oid].amount.total > 0
          /\ users[orders[oid].userId].points
                = SeedUsers[orders[oid].userId].points
                     + OnePercentFloor(orders[oid].amount.total)
          /\ users["c2"].wallet = 5 * orders[oid].amount.total

\* the sum of the wallets of the users of S
RECURSIVE WalletSum(_, _)
WalletSum(us, S) ==
    IF S = {} THEN 0
    ELSE LET x == CHOOSE y \in S : TRUE
         IN  us[x].wallet + WalletSum(us, S \ {x})

\* C30: under every referral graph, one with a cycle included, the payment
\* of a payable order is answered, and it credits at most three wallets
\* shares: nothing, 5%, 5% + 3% or 5% + 3% + 1% of the total in all, and no
\* wallet goes down.
C30_BoundedWalk ==
    [][\A actor \in Users, oid \in 1..Len(orders) :
          ( /\ orders[oid].userId = actor
            /\ orders[oid].paymentStatus # "paid" )
          => /\ ENABLED PayOrder(actor, oid)
             /\ PayOrder(actor, oid) =>
                   LET T == orders[oid].amount.total
                       credited == WalletSum(users', Users) - WalletSum(users, Users)
                   IN  /\ resp'.kind = "ok"
                       /\ credited \in {0, 5 * T, 8 * T, 9 * T}
                       /\ \A x \in Users : users'[x].wallet >= users[x].wallet]_vars

\* the buyer and its referrer refer each other: a payment credited the
\* referrer at levels 1 and 3 and the buyer at level 2
C30_Witness ==
    /\ resp = [op |-> "PayOrder", kind |-> "ok"]
    /\ \E oid \in 1..Len(orders) :
          LET buyer == orders[oid].userId
              T == orders[oid].amount.total
          IN  /\ T > 0
              /\ users[buyer].referrerId # <<>>
              /\ users[buyer].referrerId[1] \in Users \ {buyer}
              /\ users[users[buyer].referrerId[1]].referrerId = <<buyer>>
              /\ users[buyer].wallet = SeedUsers[buyer].wallet + 3 * T
              /\ users[users[buyer].referrerId[1]].wallet
                    = SeedUsers[users[buyer].referrerId[1]].wallet + 6 * T

\* C31: whatever quantity a purchase asks for, zero and negative ones
\* included, soldCount and every user's purchased quantity never go down
\* and are never below 0, and every stored order line has quantity >= 0.
C31_SaleCountersMonotone ==
    [][/\ \A sid \in 1..Len(flashSales) :
             /\ flashSales'[sid].soldCount >= flashSales[sid].soldCount
             /\ flashSales'[sid].soldCount >= 0
             /\ \A u \in DOMAIN flashSales'[sid].participants :
                   /\ flashSales'[sid].participants[u] >= 0
                   /\ flashSales'[sid].participants[u] >= UserPurchased(flashSales[sid], u)
       /\ \A oid \in 1..Len(orders') :
             \A k \in 1..Len(orders'[oid].items) : orders'[oid].items[k].quantity >= 0]_vars

\* the sum of the purchased quantities of the users of S in a sale
RECURSIVE PurchasedSum(_, _)
PurchasedSum(sale, S) ==
    IF S = {} THEN 0
    ELSE LET x == CHOOSE y \in S : TRUE
         IN  sale.participants[x] + PurchasedSum(sale, S \ {x})

\* the sum of the line quantities of the stored orders of sale sid
OrderedOf(sid) ==
    SumSeq([oid \in 1..Len(orders) |->
               IF orders[oid].flashSaleId = sid
               THEN SumSeq([k \in 1..Len(orders[oid].items) |->
                               orders[oid].items[k].quantity])
               ELSE 0])

\* C40: for every flash sale, in every reachable state, soldCount is the
\* sum of the users' purchased quantities and the sum of the line
\* quantities of the stored orders of that sale.
C40_SaleBookkeeping ==
    \A sid \in 1..Len(flashSales) :
        /\ flashSales[sid].soldCount
              = PurchasedSum(flashSales[sid], DOMAIN flashSales[sid].participants)
        /\ flashSales[sid].soldCount = OrderedOf(sid)

\* one user bought one unit twice: two orders of one sale, now sold out
C40_Witness ==
    \E sid \in 1..Len(flashSales) :
        /\ flashSales[sid].soldCount = 2
        /\ \E u \in DOMAIN flashSales[sid].participants :
              flashSales[sid].participants[u] = 2
        /\ Cardinality({oid \in 1..Len(orders) :
                           /\ orders[oid].flashSaleId = sid
                           /\ orders[oid].items[1].quantity = 1}) = 2

\* C32: after any sequence of coupon creations and updates by the admin, no
\* two stored coupons have the same code.
C32_UniqueCodes ==
    \A i, j \in 1..Len(coupons) : coupons[i].code = coupons[j].code => i = j

\* C33: a status update asked by a customer succeeds only for that
\* customer's own order and the target cancelled, and a payment succeeds
\* only for the order's buyer; a refused request leaves the orders, the
\* inventory and the users as they were.
C33_Authorization ==
    [][/\ \A actor \in Customers, oid \in 1..Len(orders), status \in TargetStatuses :
             ( /\ ~(orders[oid].userId = actor /\ status = "cancelled")
               /\ UpdateStatus(actor, oid, status) )
             => ( /\ resp'.kind # "ok"
                  /\ orders' = orders /\ products' = products /\ users' = users )
       /\ \A actor \in Users, oid \in 1..Len(orders) :
             ( /\ orders[oid].userId # actor
               /\ PayOrder(actor, oid) )
             => ( /\ resp'.kind # "ok"
                  /\ orders' = orders /\ products' = products /\ users' = users )]_vars

\* the buyer's request to put its own pending order to paid was refused
C33_Witness ==
    /\ resp = [op |-> "UpdateStatus", kind |-> "Unauthorized"]
    /\ \E oid \in 1..Len(orders) :
          /\ orders[oid].status = "pending"
          /\ orders[oid].timeline = << <<"created">> >>

\* C34: a verification sets an order to delivered only when the order is
\* offline, its status is shipped and the code matches; in every other case
\* the order is left as it was.
C34_VerifyOnlyShipped ==
    [][\A actor \in Users, oid \in 1..Len(orders), codeMatches \in BOOLEAN :
          ( /\ ~( /\ orders[oid].orderType = "offline"
                  /\ orders[oid].status = "shipped"
                  /\ codeMatches )
            /\ VerifyOrder(actor, oid, codeMatches) )
          => orders' = orders]_vars

\* C35: over its life an order releases and confirms no more than it
\* reserved: an order that is already cancelled or refunded has given its
\* whole reservation back, so a further status update of it moves no stock.
C35_ReleaseWithinReserved ==
    [][\A actor \in Users, oid \in 1..Len(orders), status \in TargetStatuses :
          ( /\ orders[oid].status \in {"cancelled", "refunded"}
            /\ UpdateStatus(actor, oid, status) )
          => \A p \in Products : products'[p].inventory = products[p].inventory]_vars

\* C36: an order with status paid, shipped or delivered has paymentStatus
\* paid, and an order with status pending has paymentStatus unpaid.
C36_PaymentStatusConsistent ==
    \A oid \in 1..Len(orders) :
        /\ orders[oid].status \in {"paid", "shipped", "delivered"}
              => orders[oid].paymentStatus = "paid"
        /\ orders[oid].status = "pending" => orders[oid].paymentStatus = "unpaid"

\* C37: every order stored by a group completion carries the productId and
\* the groupPrice of the activity the group was opened under, and names that
\* activity as its groupBuyingId.
C37_OrdersOfOwnActivity ==
    \A i \in 1..Len(orders) :
        orders[i].orderType = "group_buying" =>
            LET own == groups[orders[i].groupId].activityId IN
            /\ orders[i].groupBuyingId = own
            /\ orders[i].items[1].productId = activities[own].productId
            /\ orders[i].items[1].price = activities[own].groupPrice

GroupsOf(aid) == {g \in 1..Len(groups) : groups[g].activityId = aid}

RECURSIVE SizeSum(_)
SizeSum(G) ==
    IF G = {} THEN 0
    ELSE LET g == CHOOSE x \in G : TRUE IN groups[g].currentSize + SizeSum(G \ {g})

\* C38: for every activity, currentGroups is the number of groups opened
\* under it and totalParticipants is the sum of their currentSize.
C38_ActivityCounters ==
    \A aid \in 1..Len(activities) :
        /\ activities[aid].currentGroups = Cardinality(GroupsOf(aid))
        /\ activities[aid].totalParticipants = SizeSum(GroupsOf(aid))

\* C39: no activity has more groups than its maxGroups.
C39_GroupsWithinMax ==
    \A aid \in 1..Len(activities) :
        activities[aid].currentGroups <= activities[aid].maxGroups

=============================================================================
